---- MODULE Spec2Model ----
(***************************************************************************)
(* Model of src/src/data/loader.py: the cyclic index generator             *)
(* (batch_sampler.shuffle_iterator), the class-balanced batch sampler      *)
(* (batch_sampler), fast_collate and PrefetchLoader.                       *)
(*                                                                         *)
(* Python positions are 0-based; TLA+ sequences are 1-based.  Positions    *)
(* stored in the state (indexes, cursors, rows) keep their Python values,  *)
(* and element p of a Python list s is s[p + 1] here.                      *)
(***************************************************************************)
EXTENDS Integers, Sequences, FiniteSets, TLC

VARIABLES
    gen_arg,      \* shuffle_iterator: the collection passed in
    gen,          \* shuffle_iterator: Some(the generator's frame), None without a generator
    gen_out,      \* shuffle_iterator: Some(the slice the last next() returned)
    gen_pass,     \* history: the slices returned since the last np.random.shuffle
    gen_shuffles, \* history: number of reshuffles at line 238, saturating
    labels0,      \* batch_sampler: the label sequence as the caller passed it in (history)
    class_list,   \* batch_sampler: the caller's list object, which self.class_list aliases
    sampler,      \* batch_sampler: Some(the object's fields), None before __init__
    s_pc,         \* batch_sampler.__iter__: where the generator stands
    s_i,          \* batch_sampler.__iter__: the loop variable i
    s_index,      \* batch_sampler.__iter__: the loop variable index
    index_list,   \* batch_sampler.__iter__: the list being filled
    s_batch,      \* Some(the batch just yielded), None once the consumer has asked again
    s_yielded,    \* history: batches yielded in the running pass
    s_passes,     \* history: passes run to StopIteration, saturating
    s_contrib,    \* history: the labels whose iterator has supplied an index
    c_batch,      \* fast_collate: the argument batch
    c_result,     \* fast_collate: what the call returned or raised
    c_pc,         \* fast_collate: "off", "call" (about to run) or "done"
    loader,       \* PrefetchLoader.loader: the upstream batches, its collate_fn and
                  \*   collate_fn.mixup_enabled
    pl,           \* PrefetchLoader: mean, std, fp16, random_erasing (and the arguments
                  \*   of create_loader they come from)
    p_pc,         \* PrefetchLoader.__iter__: where the generator stands
    p_pos,        \* PrefetchLoader.__iter__: batches pulled from self.loader
    p_first,      \* PrefetchLoader.__iter__: first
    p_next,       \* PrefetchLoader.__iter__: Some((next_input, next_target))
    p_cur,        \* PrefetchLoader.__iter__: Some((input, target)), None while unbound
    p_stream,     \* the preparations issued on the side stream, oldest first
    p_waited,     \* how many of them the consumer's stream waits for (wait_stream)
    p_handed,     \* history: the batches handed to the consumer, oldest first
    p_exc,        \* the exception the pass raised, "" for none
    m_read,       \* Some(what the last read of mixup_enabled returned)
    m_op,         \* history: the access to mixup_enabled the last step made: "get",
                  \*   "set", or "" when it made none
    m_written     \* history: mixup_enabled has been assigned to

iterVars == <<gen_arg, gen, gen_out, gen_pass, gen_shuffles>>

samplerVars == <<labels0, class_list, sampler, s_pc, s_i, s_index, index_list,
                 s_batch, s_yielded, s_passes, s_contrib>>

collateVars == <<c_batch, c_result, c_pc>>

prefetchVars == <<loader, pl, p_pc, p_pos, p_first, p_next, p_cur, p_stream, p_waited,
                  p_handed, p_exc, m_read, m_op, m_written>>

vars == <<gen_arg, gen, gen_out, gen_pass, gen_shuffles,
          labels0, class_list, sampler, s_pc, s_i, s_index, index_list,
          s_batch, s_yielded, s_passes, s_contrib,
          c_batch, c_result, c_pc,
          loader, pl, p_pc, p_pos, p_first, p_next, p_cur, p_stream, p_waited,
          p_handed, p_exc, m_read, m_op, m_written>>

(* An optional value: <<>> is Python's None (or "not yet assigned"), <<x>> is x. *)
None == <<>>
Some(x) == <<x>>
Val(o) == o[1]

(***************************************************************************)
(* Bounds of the model.                                                    *)
(***************************************************************************)
MaxLen == 3        \* longest collection handed to a stand-alone shuffle_iterator
MaxStep == 3       \* largest step handed to a stand-alone shuffle_iterator
MaxShuffles == 2   \* the reshuffle counter saturates here
MaxN == 3          \* longest label sequence handed to batch_sampler
MaxBatch == 3      \* largest batch_size handed to batch_sampler
MaxPasses == 2     \* the pass counter saturates here
MaxB == 2          \* most samples in a batch handed to fast_collate
MaxK == 2          \* largest arity of a tuple sample handed to fast_collate
MaxUp == 3         \* most batches the upstream loader of a PrefetchLoader yields

(* The label values a dataset may carry. *)
Labels == {0, 1, 2}

Min(a, b) == IF a < b THEN a ELSE b

Range(s) == {s[k] : k \in 1..Len(s)}

(* The Python list [0, 1, ..., n-1]. *)
Iota(n) == [k \in 1..n |-> k - 1]

(* Python s[a:b] for 0 <= a <= b: the elements at positions a .. b-1 that exist. *)
Slice(s, a, b) == SubSeq(s, a + 1, Min(b, Len(s)))

(* np.random.shuffle(s): every reordering of s is a possible outcome. *)
Shuffle(s) ==
    IF Len(s) = 0 THEN {<<>>}
    ELSE {[k \in 1..Len(s) |-> s[p[k]]] : p \in Permutations(1..Len(s))}

(***************************************************************************)
(* batch_sampler.shuffle_iterator (lines 226-238)                          *)
(***************************************************************************)

(* Line 236 without the look-ahead: reset only once the cursor has reached the end. *)
WrapsAtEnd(i, step, total_size) == i >= total_size

(* Line 236 with the off-by-one moved: reset only once the cursor is past the end. *)
WrapsLate(i, step, total_size) == i > total_size

(* Line 236: the test that resets the cursor and reshuffles. *)
Wraps(i, step, total_size) == i + step >= total_size

(* Lines 229-231: the frame of a generator that has been created and not yet run
   to its first yield (the shuffle of line 232 happens on the first next()). *)
shuffle_iterator(iterator, step) ==
    [index |-> iterator, total_size |-> Len(iterator), i |-> 0, step |-> step,
     started |-> FALSE]

(* One next() on the generator g: the set of possible outcomes, one per result
   of np.random.shuffle.  gen is the frame at the yield that answers the call,
   out the slice yielded, reshuffled whether line 238 ran during the call. *)
GenNext(g) ==
    IF ~g.started
    THEN {[gen |-> [g EXCEPT !.index = p, !.started = TRUE],
           out |-> Slice(p, 0, g.step), reshuffled |-> FALSE] : p \in Shuffle(g.index)}
    ELSE LET i1 == g.i + g.step IN
         IF Wraps(i1, g.step, g.total_size)
         THEN {[gen |-> [g EXCEPT !.i = 0, !.index = p],
                out |-> Slice(p, 0, g.step), reshuffled |-> TRUE] : p \in Shuffle(g.index)}
         ELSE {[gen |-> [g EXCEPT !.i = i1],
                out |-> Slice(g.index, i1, i1 + g.step), reshuffled |-> FALSE]}

(* The stand-alone generator: a caller creates it and calls next() for ever. *)
IterIdle ==
    /\ gen_arg = <<>>
    /\ gen = None
    /\ gen_out = None
    /\ gen_pass = <<>>
    /\ gen_shuffles = 0

SamplerIdle ==
    /\ labels0 = <<>>
    /\ class_list = <<>>
    /\ sampler = None
    /\ s_pc = [at |-> "off", batch_size |-> 0]
    /\ s_i = 0
    /\ s_index = 0
    /\ index_list = <<>>
    /\ s_batch = None
    /\ s_yielded = 0
    /\ s_passes = 0
    /\ s_contrib = {}

(* What fast_collate leaves behind when it raises exc. *)
Raise(exc) == [exc |-> exc, shape |-> <<>>, tensor |-> <<>>, targets |-> <<>>]

CollateIdle ==
    /\ c_batch = [head_is_tuple |-> TRUE, samples |-> <<>>]
    /\ c_result = Raise("")
    /\ c_pc = "off"

PrefetchIdle ==
    /\ loader = [batches |-> <<>>, collate_fn |-> "", mixup_enabled |-> FALSE]
    /\ pl = [mean |-> 0, std |-> 0, fp16 |-> FALSE, random_erasing |-> FALSE,
             is_training |-> FALSE, re_prob |-> 0]
    /\ p_pc = "off"
    /\ p_pos = 0
    /\ p_first = FALSE
    /\ p_next = None
    /\ p_cur = None
    /\ p_stream = <<>>
    /\ p_waited = 0
    /\ p_handed = <<>>
    /\ p_exc = ""
    /\ m_read = None
    /\ m_op = ""
    /\ m_written = FALSE

InitIter ==
    /\ gen_arg \in {Iota(n) : n \in 0..MaxLen}
    /\ \E step \in 1..MaxStep : gen = Some(shuffle_iterator(gen_arg, step))
    /\ gen_out = None
    /\ gen_pass = <<>>
    /\ gen_shuffles = 0
    /\ SamplerIdle
    /\ CollateIdle
    /\ PrefetchIdle

IterNext ==
    /\ gen # None
    /\ \E o \in GenNext(Val(gen)) :
        /\ gen' = Some(o.gen)
        /\ gen_out' = Some(o.out)
        /\ gen_pass' = IF o.reshuffled THEN <<o.out>> ELSE Append(gen_pass, o.out)
        /\ gen_shuffles' = IF o.reshuffled THEN Min(gen_shuffles + 1, MaxShuffles)
                           ELSE gen_shuffles
    /\ UNCHANGED gen_arg
    /\ UNCHANGED samplerVars
    /\ UNCHANGED collateVars
    /\ UNCHANGED prefetchVars

NextIter == IterNext

SpecIter == InitIter /\ [][NextIter]_vars

(***************************************************************************)
(* batch_sampler (lines 190-224)                                           *)
(***************************************************************************)

(* All sequences over S of length 0..n. *)
SeqsUpTo(S, n) == UNION {[1..k -> S] : k \in 0..n}

(* np.unique (line 194): the distinct values, ascending. *)
RECURSIVE Ascending(_)
Ascending(S) ==
    IF S = {} THEN <<>>
    ELSE LET m == CHOOSE x \in S : \A y \in S : x <= y
         IN <<m>> \o Ascending(S \ {m})

Unique(s) == Ascending(Range(s))

(* Line 202: the positions of the list that hold v, ascending. *)
Indexes(lst, v) == SelectSeq(Iota(Len(lst)), LAMBDA p : lst[p + 1] = v)

(* Lines 200-203: one [len(indexes), indexes] entry per distinct value, in the order
   of unique_value.  v is not stored by the code; it is kept here to name the class. *)
TempList(lst, unique_value) ==
    [k \in 1..Len(unique_value) |->
        LET ix == Indexes(lst, unique_value[k])
        IN [n |-> Len(ix), indexes |-> ix, v |-> unique_value[k]]]

(* Line 206: sorted(..., key=k[0], reverse=True), which is stable: among entries of
   equal size the earlier one stays first. *)
RECURSIVE SortedBySize(_)
SortedBySize(t) ==
    IF Len(t) = 0 THEN <<>>
    ELSE LET k == CHOOSE a \in 1..Len(t) :
                    /\ \A b \in 1..Len(t) : t[b].n <= t[a].n
                    /\ \A b \in 1..(a - 1) : t[b].n < t[a].n
             rest == [b \in 1..(Len(t) - 1) |-> IF b < k THEN t[b] ELSE t[b + 1]]
         IN <<t[k]>> \o SortedBySize(rest)

(* Line 209 rounding up instead of down. *)
BatchNumCeil(n, batch_size) == (n + batch_size - 1) \div batch_size

(* Line 209: the number of batches of a pass. *)
BatchNum(n, batch_size) == n \div batch_size

(* Line 216 with the round-robin starting one class late. *)
SlotIteratorShifted(index, num_classes) == (index + 1) % num_classes

(* Line 216: the iterator that fills slot index of a batch. *)
SlotIterator(index, num_classes) == index % num_classes

InitSampler ==
    /\ labels0 \in SeqsUpTo(Labels, MaxN)
    /\ class_list = labels0
    /\ sampler = None
    /\ s_pc \in {[at |-> "new", batch_size |-> b] : b \in 1..MaxBatch}
    /\ s_i = 0
    /\ s_index = 0
    /\ index_list = <<>>
    /\ s_batch = None
    /\ s_yielded = 0
    /\ s_passes = 0
    /\ s_contrib = {}
    /\ IterIdle
    /\ CollateIdle
    /\ PrefetchIdle

(* batch_sampler.__init__ (lines 191-209).  np.random.shuffle at line 199 works on
   the list object the caller passed, which self.class_list only refers to. *)
SamplerInit ==
    /\ s_pc.at = "new"
    /\ \E shuffled \in Shuffle(class_list) :
        LET unique_value == Unique(class_list)
            temp_list == SortedBySize(TempList(shuffled, unique_value))
        IN /\ class_list' = shuffled
           /\ sampler' = Some([batch_size |-> s_pc.batch_size,
                               unique_value |-> unique_value,
                               temp_list |-> temp_list,
                               iter_list |-> [k \in 1..Len(temp_list) |->
                                                 shuffle_iterator(temp_list[k].indexes, 1)],
                               batch_num |-> BatchNum(Len(shuffled), s_pc.batch_size)])
    /\ s_pc' = [at |-> "ready", batch_size |-> s_pc.batch_size]
    /\ UNCHANGED <<labels0, s_i, s_index, index_list, s_batch, s_yielded, s_passes, s_contrib>>
    /\ UNCHANGED iterVars
    /\ UNCHANGED collateVars
    /\ UNCHANGED prefetchVars

(* What the generator of __iter__ does when range(batch_num) is at i: enter the
   body (line 215) or fall off the end, which the consumer sees as StopIteration. *)
SamplerLoop(i) ==
    IF i < Val(sampler).batch_num
    THEN /\ s_pc' = [s_pc EXCEPT !.at = "draw"]
         /\ s_i' = i
         /\ s_index' = 0
         /\ s_passes' = s_passes
    ELSE /\ s_pc' = [s_pc EXCEPT !.at = "ready"]
         /\ s_i' = 0
         /\ s_index' = 0
         /\ s_passes' = Min(s_passes + 1, MaxPasses)

(* iter(sampler) and the first next(): lines 212-213. *)
SamplerIter ==
    /\ s_pc.at = "ready"
    /\ index_list' = <<>>
    /\ s_yielded' = 0
    /\ SamplerLoop(0)
    /\ UNCHANGED <<labels0, class_list, sampler, s_batch, s_contrib>>
    /\ UNCHANGED iterVars
    /\ UNCHANGED collateVars
    /\ UNCHANGED prefetchVars

(* Lines 215-218: one turn of the inner loop. *)
SamplerDraw ==
    /\ s_pc.at = "draw"
    /\ s_index < Val(sampler).batch_size
    /\ LET k == SlotIterator(s_index, Len(Val(sampler).unique_value)) + 1 IN
       \E o \in GenNext(Val(sampler).iter_list[k]) :
            /\ sampler' = Some([Val(sampler) EXCEPT !.iter_list[k] = o.gen])
            /\ index_list' = index_list \o o.out
            /\ s_contrib' = IF o.out = <<>> THEN s_contrib
                            ELSE s_contrib \cup {Val(sampler).temp_list[k].v}
    /\ s_index' = s_index + 1
    /\ UNCHANGED <<labels0, class_list, s_pc, s_i, s_batch, s_yielded, s_passes>>
    /\ UNCHANGED iterVars
    /\ UNCHANGED collateVars
    /\ UNCHANGED prefetchVars

(* Lines 219-220: shuffle the filled list and yield it. *)
SamplerYield ==
    /\ s_pc.at = "draw"
    /\ s_index = Val(sampler).batch_size
    /\ \E shuffled \in Shuffle(index_list) :
        /\ index_list' = shuffled
        /\ s_batch' = Some(shuffled)
    /\ s_yielded' = s_yielded + 1
    /\ s_pc' = [s_pc EXCEPT !.at = "yielded"]
    /\ UNCHANGED <<labels0, class_list, sampler, s_i, s_index, s_passes, s_contrib>>
    /\ UNCHANGED iterVars
    /\ UNCHANGED collateVars
    /\ UNCHANGED prefetchVars

(* The next next(): line 221 and the head of the outer loop. *)
SamplerResume ==
    /\ s_pc.at = "yielded"
    /\ index_list' = <<>>
    /\ s_batch' = None
    /\ SamplerLoop(s_i + 1)
    /\ UNCHANGED <<labels0, class_list, sampler, s_yielded, s_contrib>>
    /\ UNCHANGED iterVars
    /\ UNCHANGED collateVars
    /\ UNCHANGED prefetchVars

NextSampler == SamplerInit \/ SamplerIter \/ SamplerDraw \/ SamplerYield \/ SamplerResume

SpecSampler == InitSampler /\ [][NextSampler]_vars

(* The consumer keeps constructing, iterating and calling next(). *)
FairSpecSampler == SpecSampler /\ WF_vars(NextSampler)

(* batch_sampler.__len__ (lines 223-224). *)
SamplerLen == Val(sampler).batch_num

(***************************************************************************)
(* fast_collate (lines 19-51)                                              *)
(*                                                                         *)
(* An array (np.ndarray or torch.Tensor, dtype uint8) is [shape, flat]:    *)
(* its dimensions and its elements in row-major order.  A sample's data is *)
(* [kind, shape, flat, items]: kind "ndarray" or "tensor" with shape and   *)
(* flat, kind "tuple" with items (a sequence of np.ndarray), or kind       *)
(* "other" (an object that is none of the three, without len or index).    *)
(***************************************************************************)
RECURSIVE Prod(_)
Prod(shape) == IF Len(shape) = 0 THEN 1 ELSE shape[1] * Prod(Tail(shape))

(* The position of flat offset f along dimension k of shape. *)
Coord(f, shape, k) == (f \div Prod(SubSeq(shape, k + 1, Len(shape)))) % shape[k]

(* The flat offset of the element of an array of shape ss that broadcasting puts at
   flat offset f of an array of shape rs: dimensions are aligned at the right, and a
   dimension of size 1 is repeated. *)
RECURSIVE SourceOffset(_, _, _, _)
SourceOffset(f, rs, ss, k) ==
    IF k > Len(ss) THEN 0
    ELSE LET c == IF ss[k] = 1 THEN 0 ELSE Coord(f, rs, k + Len(rs) - Len(ss))
         IN c * Prod(SubSeq(ss, k + 1, Len(ss))) + SourceOffset(f, rs, ss, k + 1)

(* Whether torch accepts an in-place operation of an operand of shape ss on a
   destination of shape rs: ss must broadcast to exactly rs. *)
Broadcastable(ss, rs) ==
    /\ Len(ss) <= Len(rs)
    /\ \A k \in 1..Len(ss) : ss[k] = 1 \/ ss[k] = rs[k + Len(rs) - Len(ss)]

(* A zeroed uint8 row of shape rs after `+=` (line 34, 41) or copy_ (line 48) of the
   array a: the elements of a, broadcast, in 8 bits. *)
RowOf(a, rs) ==
    [f \in 1..Prod(rs) |-> (0 + a.flat[SourceOffset(f - 1, rs, a.shape, 1) + 1]) % 256]

(* a[j] for an array of at least one dimension. *)
SubArray(a, j) ==
    LET n == Prod(Tail(a.shape))
    IN [shape |-> Tail(a.shape), flat |-> SubSeq(a.flat, j * n + 1, (j + 1) * n)]

(* The outcome of filling one row: exc is "" and row the row, or exc names what
   was raised. *)
RowOk(a, rs) ==
    IF Broadcastable(a.shape, rs) THEN [exc |-> "", row |-> RowOf(a, rs)]
    ELSE [exc |-> "RuntimeError", row |-> <<>>]

RowFails(exc) == [exc |-> exc, row |-> <<>>]

(* Line 41: tensor[i] += torch.from_numpy(batch[i][0]). *)
ArrayRow(d, rs) ==
    IF d.kind = "ndarray" THEN RowOk(d, rs) ELSE RowFails("TypeError")

(* Line 48: tensor[i].copy_(batch[i][0]). *)
TensorRow(d, rs) ==
    IF d.kind = "tensor" THEN RowOk(d, rs) ELSE RowFails("TypeError")

(* Line 31: len(batch[i][0]); -1 stands for the TypeError of an object without len. *)
LenOf(d) ==
    CASE d.kind = "tuple" -> Len(d.items)
      [] d.kind \in {"ndarray", "tensor"} -> IF Len(d.shape) = 0 THEN -1 ELSE d.shape[1]
      [] OTHER -> -1

(* Line 34: tensor[...] += torch.from_numpy(batch[i][0][j]), for j < len(batch[i][0]). *)
TupleRow(d, j, rs) ==
    CASE d.kind = "tuple" -> RowOk(d.items[j + 1], rs)
      [] d.kind = "ndarray" ->
            IF Len(d.shape) >= 2 THEN RowOk(SubArray(d, j), rs)
            ELSE RowFails("TypeError")     \* a numpy scalar is no ndarray
      [] OTHER -> RowFails("TypeError")    \* from_numpy of a Tensor

(* Lines 33-34 with the rows interleaved: the K variants of a sample side by side. *)
FlatRowInterleaved(i, j, batch_size, inner_tuple_size) == i * inner_tuple_size + j

(* Lines 33-34: the row that variant j of sample i is written to. *)
FlatRow(i, j, batch_size, inner_tuple_size) == i + j * batch_size

(* The first exception among outcomes o[1], o[2], ..., "" when there is none. *)
FirstExc(o) ==
    IF \A k \in 1..Len(o) : o[k].exc = "" THEN ""
    ELSE o[CHOOSE k \in 1..Len(o) :
              o[k].exc # "" /\ \A m \in 1..(k - 1) : o[m].exc = ""].exc

(* Lines 37-42 and 44-49: the single-array and the tensor branch. *)
CollateRows(samples, rows) ==
    IF FirstExc(rows) # "" THEN Raise(FirstExc(rows))
    ELSE [exc |-> "", shape |-> samples[1].data.shape,
          tensor |-> [i \in 1..Len(samples) |-> rows[i].row],
          targets |-> [i \in 1..Len(samples) |-> samples[i].label]]

(* Lines 26-35: the tuple branch.  cells[i][j] is the outcome for variant j-1 of
   sample i-1; a sample whose len is not inner_tuple_size fails the assert. *)
CollateTuple(samples) ==
    LET batch_size == Len(samples)
        inner_tuple_size == Len(samples[1].data.items)
        rs == samples[1].data.items[1].shape
        flattened_batch_size == batch_size * inner_tuple_size
        cells == [i \in 1..batch_size |->
                    LET d == samples[i].data IN
                    IF LenOf(d) = -1 THEN <<RowFails("TypeError")>>
                    ELSE IF LenOf(d) # inner_tuple_size THEN <<RowFails("AssertionError")>>
                    ELSE [j \in 1..inner_tuple_size |-> TupleRow(d, j - 1, rs)]]
        perSample == [i \in 1..batch_size |-> [exc |-> FirstExc(cells[i])]]
        at(r) == CHOOSE ij \in (0..(batch_size - 1)) \X (0..(inner_tuple_size - 1)) :
                    FlatRow(ij[1], ij[2], batch_size, inner_tuple_size) = r
    IN IF inner_tuple_size = 0 THEN Raise("IndexError")
       ELSE IF FirstExc(perSample) # "" THEN Raise(FirstExc(perSample))
       ELSE [exc |-> "", shape |-> rs,
             tensor |-> [r \in 1..flattened_batch_size |->
                            cells[at(r - 1)[1] + 1][at(r - 1)[2] + 1].row],
             targets |-> [r \in 1..flattened_batch_size |->
                            samples[at(r - 1)[1] + 1].label]]

(* fast_collate(batch): the returned (tensor, targets), or the exception. *)
fast_collate(batch) ==
    IF Len(batch.samples) = 0 THEN Raise("IndexError")
    ELSE IF ~batch.head_is_tuple THEN Raise("AssertionError")
    ELSE LET samples == batch.samples
             first == samples[1].data
         IN CASE first.kind = "tuple" -> CollateTuple(samples)
              [] first.kind = "ndarray" ->
                    CollateRows(samples, [i \in 1..Len(samples) |->
                                            ArrayRow(samples[i].data, first.shape)])
              [] first.kind = "tensor" ->
                    CollateRows(samples, [i \in 1..Len(samples) |->
                                            TensorRow(samples[i].data, first.shape)])
              [] OTHER -> Raise("AssertionError")

(* The inputs: element e of variant j of sample i carries a value of its own. *)
Pix(i, j, e) == (200 + 97 * i + 31 * j + 7 * e) % 256

Shapes == {<<1>>, <<2>>, <<2, 1>>}

ArrayAt(i, j, shape) == [shape |-> shape, flat |-> [e \in 1..Prod(shape) |-> Pix(i, j, e - 1)]]

DataAt(i) ==
    {[kind |-> k, shape |-> sh, flat |-> ArrayAt(i, 0, sh).flat, items |-> <<>>] :
        k \in {"ndarray", "tensor"}, sh \in Shapes}
    \cup {[kind |-> "tuple", shape |-> <<>>, flat |-> <<>>,
           items |-> [j \in 1..K |-> ArrayAt(i, j - 1, sh)]] : K \in 1..MaxK, sh \in Shapes}
    \cup {[kind |-> "other", shape |-> <<>>, flat |-> <<>>, items |-> <<>>]}

SamplesAt(i) == {[data |-> d, label |-> l] : d \in DataAt(i), l \in {0, 1}}

(* The lists of B samples. *)
RECURSIVE SampleLists(_)
SampleLists(B) ==
    IF B = 0 THEN {<<>>}
    ELSE {Append(t, x) : t \in SampleLists(B - 1), x \in SamplesAt(B - 1)}

(* head_is_tuple: whether batch[0] is a (data, label) tuple, which line 21 asserts. *)
InitCollate ==
    /\ c_batch \in {[head_is_tuple |-> h, samples |-> t] :
                       h \in BOOLEAN, t \in UNION {SampleLists(B) : B \in 0..MaxB}}
    /\ c_result = Raise("")
    /\ c_pc = "call"
    /\ IterIdle
    /\ SamplerIdle
    /\ PrefetchIdle

Collate ==
    /\ c_pc = "call"
    /\ c_result' = fast_collate(c_batch)
    /\ c_pc' = "done"
    /\ UNCHANGED c_batch
    /\ UNCHANGED iterVars
    /\ UNCHANGED samplerVars
    /\ UNCHANGED prefetchVars

NextCollate == Collate

SpecCollate == InitCollate /\ [][NextCollate]_vars

(***************************************************************************)
(* PrefetchLoader (lines 54-125) and its construction by create_loader     *)
(* (lines 176-185)                                                         *)
(*                                                                         *)
(* A value (x - m) / d computed in floating point is kept as the fraction  *)
(* [num |-> x - m, den |-> d].                                             *)
(***************************************************************************)

(* Lines 66-67: mean and std are scaled to the 0..255 range of the pixels. *)
Scaled(x) == x * 255

(* Line 177 without the is_training test. *)
PrefetchReProbAnyMode(is_training, re_prob) == re_prob

(* Line 177: the erasing probability create_loader hands to PrefetchLoader. *)
PrefetchReProb(is_training, re_prob) == IF is_training THEN re_prob ELSE 0

(* Lines 72-76: whether self.random_erasing is a RandomErasing (TRUE) or None. *)
HasRandomErasing(re_prob) == re_prob > 0

(* Lines 56-76 as called at lines 178-185. *)
PrefetchLoader(mean, std, fp16, is_training, re_prob) ==
    [mean |-> Scaled(mean), std |-> Scaled(std), fp16 |-> fp16,
     random_erasing |-> HasRandomErasing(PrefetchReProb(is_training, re_prob)),
     is_training |-> is_training, re_prob |-> re_prob]

(* Lines 84-91: the operations issued on next_input, in program order. *)
PrepareSteps(self) ==
    <<"cuda", IF self.fp16 THEN "half" ELSE "float", "sub_", "div_">>
        \o (IF self.random_erasing THEN <<"random_erasing">> ELSE <<>>)

(* Lines 84-91: the prepared form of the upstream batch b.  RandomErasing is an
   opaque Tensor -> Tensor transform: erased records that it was applied. *)
Prepare(b, self) ==
    [input |-> [num |-> b.input - self.mean, den |-> self.std,
                dtype |-> IF self.fp16 THEN "half" ELSE "float",
                erased |-> self.random_erasing,
                steps |-> PrepareSteps(self)],
     target |-> b.target,
     device |-> "cuda"]

(* Line 98 left out: nothing new is waited for. *)
WaitStreamMissing(waited, stream) == waited

(* Line 98: torch.cuda.current_stream().wait_stream(stream) makes the consumer's
   stream wait for everything issued on stream so far. *)
WaitStream(waited, stream) == Len(stream)

(* Lines 99-100 left out once input is bound. *)
KeepCurrent(cur, next) == IF cur = None THEN next ELSE cur

(* Lines 99-100: input = next_input; target = next_target. *)
SwapBuffers(cur, next) == next

(* Line 117: isinstance(self.loader.collate_fn, FastCollateMixup). *)
GetterSeesMixup(collate_fn) == collate_fn = "FastCollateMixup"

(* Line 124 without the isinstance test. *)
SetterSeesAnyCollate(collate_fn) == TRUE

(* Line 124: isinstance(self.loader.collate_fn, FastCollateMixup). *)
SetterSeesMixup(collate_fn) == collate_fn = "FastCollateMixup"

(* The batches an upstream loader may yield: (input, target) with one pixel value
   standing for the uint8 tensor. *)
UpstreamBatches == {[input |-> 0, target |-> 0], [input |-> 255, target |-> 1]}

InitPrefetch ==
    /\ loader \in {[batches |-> b, collate_fn |-> c, mixup_enabled |-> e] :
                      b \in SeqsUpTo(UpstreamBatches, MaxUp),
                      c \in {"fast_collate", "FastCollateMixup"},
                      e \in BOOLEAN}
    /\ loader.collate_fn = "fast_collate" => loader.mixup_enabled = FALSE
    /\ pl \in {PrefetchLoader(ms[1], ms[2], fp16, is_training, re_prob) :
                  ms \in {<<0, 1>>, <<1, 2>>}, fp16 \in BOOLEAN,
                  is_training \in BOOLEAN, re_prob \in {0, 1}}
    /\ p_pc = "idle"
    /\ p_pos = 0
    /\ p_first = FALSE
    /\ p_next = None
    /\ p_cur = None
    /\ p_stream = <<>>
    /\ p_waited = 0
    /\ p_handed = <<>>
    /\ p_exc = ""
    /\ m_read = None
    /\ m_op = ""
    /\ m_written = FALSE
    /\ IterIdle
    /\ SamplerIdle
    /\ CollateIdle

(* The consumer runs only while the generator is not: before iter(), while it is
   suspended at a yield, and after it has ended. *)
PfSuspended == p_pc \in {"idle", "yielded", "yielded_last", "done", "raised"}

(* iter(prefetch_loader) and the start of the first next(): lines 79-80. *)
PfIter ==
    /\ p_pc = "idle"
    /\ p_pc' = "fetch"
    /\ p_first' = TRUE
    /\ UNCHANGED <<loader, pl, p_pos, p_next, p_cur, p_stream, p_waited, p_handed,
                   p_exc, m_read, m_written>>
    /\ m_op' = ""
    /\ UNCHANGED <<iterVars, samplerVars, collateVars>>

(* Line 82 giving up one batch early. *)
ExhaustedEarly(pos, n) == pos >= n - 1

(* Line 82: whether the upstream iterator, pos batches pulled out of n, is exhausted. *)
Exhausted(pos, n) == pos >= n

(* Line 82: the for statement pulls the next upstream batch, or finds none. *)
PfFetch ==
    /\ p_pc = "fetch"
    /\ IF ~Exhausted(p_pos, Len(loader.batches))
       THEN /\ p_next' = Some(loader.batches[p_pos + 1])
            /\ p_pos' = p_pos + 1
            /\ p_pc' = "prepare"
       ELSE /\ p_pc' = "final"
            /\ UNCHANGED <<p_next, p_pos>>
    /\ UNCHANGED <<loader, pl, p_first, p_cur, p_stream, p_waited, p_handed, p_exc,
                   m_read, m_written>>
    /\ m_op' = ""
    /\ UNCHANGED <<iterVars, samplerVars, collateVars>>

(* Lines 83-91: the preparation of the pulled batch is issued on the side stream. *)
PfPrepare ==
    /\ p_pc = "prepare"
    /\ p_next' = Some(Prepare(Val(p_next), pl))
    /\ p_stream' = Append(p_stream, p_pos - 1)
    /\ p_pc' = "issued"
    /\ UNCHANGED <<loader, pl, p_pos, p_first, p_cur, p_waited, p_handed, p_exc,
                   m_read, m_written>>
    /\ m_op' = ""
    /\ UNCHANGED <<iterVars, samplerVars, collateVars>>

(* Lines 84-91 raising (a device allocation that fails): the exception leaves the
   generator, which is finished by it. *)
PfPrepareFails ==
    /\ p_pc = "prepare"
    /\ p_exc' = "RuntimeError"
    /\ p_pc' = "raised"
    /\ UNCHANGED <<loader, pl, p_pos, p_first, p_next, p_cur, p_stream, p_waited,
                   p_handed, m_read, m_written>>
    /\ m_op' = ""
    /\ UNCHANGED <<iterVars, samplerVars, collateVars>>

(* Lines 93-96 with the yield never reached. *)
SkipsYieldAlways(first) == TRUE

(* Lines 93-96: the first turn of the loop has nothing to yield yet. *)
SkipsYield(first) == first

(* What the consumer receives at a yield of (input, target): the batch, the upstream
   position k it was made from, and the barrier in force. *)
Handed(cur, k, waited) == [batch |-> cur, k |-> k, barrier |-> waited]

(* Lines 93-96: yield the batch prepared in the previous turn, except in the first. *)
PfYield ==
    /\ p_pc = "issued"
    /\ IF ~SkipsYield(p_first)
       THEN /\ p_handed' = Append(p_handed, Handed(Val(p_cur), p_pos - 2, p_waited))
            /\ p_pc' = "yielded"
            /\ UNCHANGED p_first
       ELSE /\ p_first' = FALSE
            /\ p_pc' = "wait"
            /\ UNCHANGED p_handed
    /\ UNCHANGED <<loader, pl, p_pos, p_next, p_cur, p_stream, p_waited, p_exc,
                   m_read, m_written>>
    /\ m_op' = ""
    /\ UNCHANGED <<iterVars, samplerVars, collateVars>>

(* The consumer's next() resumes the generator after line 94. *)
PfResume ==
    /\ p_pc = "yielded"
    /\ p_pc' = "wait"
    /\ UNCHANGED <<loader, pl, p_pos, p_first, p_next, p_cur, p_stream, p_waited,
                   p_handed, p_exc, m_read, m_written>>
    /\ m_op' = ""
    /\ UNCHANGED <<iterVars, samplerVars, collateVars>>

(* Lines 98-100: the barrier, then next becomes current. *)
PfWait ==
    /\ p_pc = "wait"
    /\ p_waited' = WaitStream(p_waited, p_stream)
    /\ p_cur' = SwapBuffers(p_cur, p_next)
    /\ p_pc' = "fetch"
    /\ UNCHANGED <<loader, pl, p_pos, p_first, p_next, p_stream, p_handed, p_exc,
                   m_read, m_written>>
    /\ m_op' = ""
    /\ UNCHANGED <<iterVars, samplerVars, collateVars>>

(* Line 102: after the loop, yield (input, target); reading input while it is
   unbound raises UnboundLocalError. *)
PfFinalYield ==
    /\ p_pc = "final"
    /\ IF p_cur = None
       THEN /\ p_exc' = "UnboundLocalError"
            /\ p_pc' = "raised"
            /\ UNCHANGED p_handed
       ELSE /\ p_handed' = Append(p_handed, Handed(Val(p_cur), p_pos - 1, p_waited))
            /\ p_pc' = "yielded_last"
            /\ UNCHANGED p_exc
    /\ UNCHANGED <<loader, pl, p_pos, p_first, p_next, p_cur, p_stream, p_waited,
                   m_read, m_written>>
    /\ m_op' = ""
    /\ UNCHANGED <<iterVars, samplerVars, collateVars>>

(* The consumer's next() after line 102: the generator returns (StopIteration). *)
PfFinish ==
    /\ p_pc = "yielded_last"
    /\ p_pc' = "done"
    /\ UNCHANGED <<loader, pl, p_pos, p_first, p_next, p_cur, p_stream, p_waited,
                   p_handed, p_exc, m_read, m_written>>
    /\ m_op' = ""
    /\ UNCHANGED <<iterVars, samplerVars, collateVars>>

(* Lines 115-120: reading prefetch_loader.mixup_enabled. *)
MixupGet ==
    /\ PfSuspended
    /\ m_read' = Some(IF GetterSeesMixup(loader.collate_fn) THEN loader.mixup_enabled
                      ELSE FALSE)
    /\ m_op' = "get"
    /\ UNCHANGED <<loader, pl, p_pc, p_pos, p_first, p_next, p_cur, p_stream, p_waited,
                   p_handed, p_exc, m_written>>
    /\ UNCHANGED <<iterVars, samplerVars, collateVars>>

(* Lines 122-125: prefetch_loader.mixup_enabled = x. *)
MixupSet ==
    /\ PfSuspended
    /\ \E x \in BOOLEAN :
         loader' = IF SetterSeesMixup(loader.collate_fn)
                   THEN [loader EXCEPT !.mixup_enabled = x]
                   ELSE loader
    /\ m_op' = "set"
    /\ m_written' = TRUE
    /\ UNCHANGED <<pl, p_pc, p_pos, p_first, p_next, p_cur, p_stream, p_waited,
                   p_handed, p_exc, m_read>>
    /\ UNCHANGED <<iterVars, samplerVars, collateVars>>

NextPrefetch ==
    \/ PfIter \/ PfFetch \/ PfPrepare \/ PfPrepareFails \/ PfYield \/ PfResume
    \/ PfWait \/ PfFinalYield \/ PfFinish \/ MixupGet \/ MixupSet

SpecPrefetch == InitPrefetch /\ [][NextPrefetch]_vars

(* The steps of a pass, without the accesses to mixup_enabled. *)
PassStep ==
    \/ PfIter \/ PfFetch \/ PfPrepare \/ PfPrepareFails \/ PfYield \/ PfResume
    \/ PfWait \/ PfFinalYield \/ PfFinish

(* The consumer iterates and keeps asking for the next batch. *)
FairSpecPrefetch == SpecPrefetch /\ WF_vars(PassStep)

(* The phase of a pass: 0 START (nothing fetched), 1 PRIMING (one batch fetched),
   2 STEADY (a further batch fetched), 3 DRAIN (upstream found exhausted, line 102),
   4 DONE; 5 when the pass has raised. *)
PfPhase ==
    CASE p_pc = "raised" -> 5
      [] p_pc = "done" -> 4
      [] p_pc \in {"final", "yielded_last"} -> 3
      [] p_pos >= 2 -> 2
      [] p_pos = 1 -> 1
      [] OTHER -> 0

(* PrefetchLoader.__len__ (lines 104-105). *)
PrefetchLen == Len(loader.batches)

(***************************************************************************)
(* The module as a whole: a run exercises one of the four components.      *)
(***************************************************************************)
Init == InitIter \/ InitSampler \/ InitCollate \/ InitPrefetch

Next == NextIter \/ NextSampler \/ NextCollate \/ NextPrefetch

Spec == Init /\ [][Next]_vars

(***************************************************************************)
(* C1: for every label sequence of length N and every positive batch_size, *)
(* len() is N // batch_size from construction on, every batch yielded has  *)
(* exactly batch_size indices, a running pass has yielded at most          *)
(* N // batch_size batches, and a pass that has ended (the first or a      *)
(* later one) has yielded exactly N // batch_size.                         *)
(***************************************************************************)
C1_BatchCount ==
    sampler # None =>
        LET M == Len(labels0) \div s_pc.batch_size IN
        /\ SamplerLen = M
        /\ s_batch # None => Len(Val(s_batch)) = s_pc.batch_size
        /\ s_yielded <= M
        /\ (s_pc.at = "ready" /\ s_passes >= 1) => s_yielded = M

(* The second pass over 3 labels with batch_size 2 has yielded its only batch. *)
C1_Witness ==
    /\ sampler # None
    /\ Len(labels0) = 3 /\ s_pc.batch_size = 2
    /\ s_passes >= 1 /\ s_pc.at = "yielded"
    /\ s_yielded = 1 /\ SamplerLen = 1
    /\ Len(Val(s_batch)) = 2

(***************************************************************************)
(* C2: over an upstream sequence b0..b(n-1), n >= 1, the batches handed to *)
(* the consumer are at every moment the prepared forms of b0, b1, ... in   *)
(* that order (none dropped, duplicated or reordered), the preparations    *)
(* are issued in upstream order, a pass that ends has handed over exactly  *)
(* n batches, and only a preparation that fails ends a pass early.         *)
(***************************************************************************)
C2_OrderPreserved ==
    Len(loader.batches) >= 1 =>
        /\ Len(p_handed) <= Len(loader.batches)
        /\ \A j \in 1..Len(p_handed) :
             LET b == loader.batches[j]
                 h == p_handed[j].batch
             IN /\ h.input.num = b.input - pl.mean
                /\ h.input.den = pl.std
                /\ h.target = b.target
        /\ \A j \in 1..Len(p_stream) : p_stream[j] = j - 1
        /\ p_pc = "done" => Len(p_handed) = Len(loader.batches)
        /\ p_pc = "raised" => p_exc = "RuntimeError"

(* A pass over three batches, not all alike, has ended. *)
C2_Witness ==
    /\ p_pc = "done"
    /\ Len(loader.batches) = 3
    /\ loader.batches[1] # loader.batches[2]
    /\ Len(p_handed) = 3
    /\ Len(p_stream) = 3

(***************************************************************************)
(* C3: whenever a sampler has been built with N // batch_size >= 1, every  *)
(* class of the label sequence eventually contributes an index to a batch  *)
(* (no class is starved), batch_size < number of classes included.         *)
(***************************************************************************)
C3_NoClassStarved ==
    (sampler # None /\ Len(labels0) \div s_pc.batch_size >= 1)
        ~> (s_contrib = Range(labels0))

(***************************************************************************)
(* C4: for a non-empty collection and 1 <= step <= len(collection), every  *)
(* next() returns a slice of exactly step indices, all of them members of  *)
(* the collection that was passed in.                                      *)
(***************************************************************************)
C4_FullSlice ==
    (gen # None /\ gen_out # None /\ Len(gen_arg) >= 1 /\ Val(gen).step <= Len(gen_arg))
        => /\ Len(Val(gen_out)) = Val(gen).step
           /\ Range(Val(gen_out)) \subseteq Range(gen_arg)

(* A call answered after two reshuffles, with a step that is neither 1 nor the length. *)
C4_Witness ==
    /\ gen # None /\ gen_out # None
    /\ Len(gen_arg) = 3 /\ Val(gen).step = 2
    /\ gen_shuffles >= 2
    /\ Len(Val(gen_out)) = 2

(* The precondition of fast_collate: a non-empty list of (data, label) tuples whose
   data are all of sample 0's variant, arity and per-element shape. *)
Homogeneous(batch) ==
    /\ batch.head_is_tuple
    /\ Len(batch.samples) >= 1
    /\ LET first == batch.samples[1].data IN
       /\ first.kind \in {"ndarray", "tensor", "tuple"}
       /\ \A i \in 1..Len(batch.samples) :
            LET d == batch.samples[i].data IN
            /\ d.kind = first.kind
            /\ d.shape = first.shape
            /\ Len(d.items) = Len(first.items)
            /\ \A j \in 1..Len(d.items) : d.items[j].shape = first.items[1].shape

(***************************************************************************)
(* C5: on B samples of one variant and shape fast_collate returns, for     *)
(* single arrays or tensors, B rows and B labels with row i holding sample *)
(* i's data and label i its label; for K-tuples, B*K rows and labels with  *)
(* row i + j*B holding variant j of sample i and label i + j*B equal to    *)
(* sample i's label.                                                       *)
(***************************************************************************)
C5_RowsAligned ==
    (c_pc = "done" /\ Homogeneous(c_batch)) =>
        LET samples == c_batch.samples
            B == Len(samples)
            K == Len(samples[1].data.items)
        IN /\ c_result.exc = ""
           /\ samples[1].data.kind # "tuple" =>
                /\ Len(c_result.tensor) = B
                /\ Len(c_result.targets) = B
                /\ \A i \in 0..(B - 1) :
                     /\ c_result.tensor[i + 1] = samples[i + 1].data.flat
                     /\ c_result.targets[i + 1] = samples[i + 1].label
           /\ samples[1].data.kind = "tuple" =>
                /\ Len(c_result.tensor) = B * K
                /\ Len(c_result.targets) = B * K
                /\ \A i \in 0..(B - 1) : \A j \in 0..(K - 1) :
                     /\ c_result.tensor[i + j * B + 1] = samples[i + 1].data.items[j + 1].flat
                     /\ c_result.targets[i + j * B + 1] = samples[i + 1].label

(* Two 2-tuples of two-element arrays with different labels have been collated. *)
C5_Witness ==
    /\ c_pc = "done" /\ Homogeneous(c_batch)
    /\ Len(c_batch.samples) = 2
    /\ c_batch.samples[1].data.kind = "tuple"
    /\ Len(c_batch.samples[1].data.items) = 2
    /\ c_batch.samples[1].data.items[1].shape = <<2>>
    /\ c_batch.samples[1].label # c_batch.samples[2].label
    /\ Len(c_result.tensor) = 4

(***************************************************************************)
(* C6: fast_collate raises whenever some sample's variant differs from     *)
(* sample 0's, and, in the tuple variant, whenever some sample's arity     *)
(* differs from sample 0's: it never returns a batch from mixed variants   *)
(* or arities.                                                             *)
(***************************************************************************)
C6_MixedRejected ==
    (/\ c_pc = "done"
     /\ c_batch.head_is_tuple
     /\ Len(c_batch.samples) >= 1
     /\ \E i \in 1..Len(c_batch.samples) :
            \/ c_batch.samples[i].data.kind # c_batch.samples[1].data.kind
            \/ Len(c_batch.samples[i].data.items) # Len(c_batch.samples[1].data.items))
        => c_result.exc # ""

(***************************************************************************)
(* C7: every batch handed to the consumer was handed over under a          *)
(* wait_stream barrier set up after that batch's preparation had been      *)
(* issued: the barrier in force at the handoff of the j-th batch covers    *)
(* the j-th preparation issued on the side stream, which is that batch's.  *)
(***************************************************************************)
C7_BarrierBeforeHandoff ==
    \A j \in 1..Len(p_handed) :
        /\ p_handed[j].k = j - 1
        /\ j <= Len(p_stream) /\ p_stream[j] = p_handed[j].k
        /\ p_handed[j].barrier >= j

(* The second batch of a pass has been handed over in the steady state. *)
C7_Witness ==
    /\ p_pc = "yielded"
    /\ Len(p_handed) = 2
    /\ p_handed[2].barrier = 2
    /\ Len(p_stream) = 3

(***************************************************************************)
(* C8: constructing the sampler and iterating it leaves the caller's label *)
(* sequence unchanged in content and order.                                *)
(***************************************************************************)
C8_CallerLabelsUnchanged == sampler # None => class_list = labels0

(***************************************************************************)
(* C9: when the upstream collate function is not a mixing collator, every  *)
(* read of mixup_enabled returns false, and a write to it raises nothing   *)
(* and changes no state of the pipeline or of the upstream loader.         *)
(***************************************************************************)
C9_MixupNoOp ==
    /\ []((loader.collate_fn # "FastCollateMixup" /\ m_read # None) => Val(m_read) = FALSE)
    /\ [][(loader.collate_fn # "FastCollateMixup" /\ m_op' = "set") =>
            UNCHANGED <<loader, pl, p_pc, p_pos, p_first, p_next, p_cur, p_stream,
                        p_waited, p_handed, p_exc, m_read>>]_vars

(* mixup_enabled has been read after a write, on a loader without a mixing collator. *)
C9_Witness ==
    /\ loader.collate_fn = "fast_collate"
    /\ m_written
    /\ m_op = "get"
    /\ Val(m_read) = FALSE

(***************************************************************************)
(* C10: when the upstream source yields no batch, a pass hands over zero   *)
(* batches and ends without raising.                                       *)
(***************************************************************************)
C10_EmptyPassEndsNormally ==
    Len(loader.batches) = 0 => (p_exc = "" /\ Len(p_handed) = 0)


(***************************************************************************)
(* C11: the class groups are ranked by descending population, and in every *)
(* batch the class of rank k (0..C-1) contributes exactly as many indices  *)
(* as there are slots s in 0..batch_size-1 with s mod C = k, each from the *)
(* group the sampler built for that class; so per-batch class counts       *)
(* differ by at most one and a class with a strictly larger population     *)
(* never contributes fewer indices than a smaller one.                     *)
(***************************************************************************)
Population(v) == Cardinality({p \in 1..Len(labels0) : labels0[p] = v})

(* How many entries of the batch come from the group of rank k - 1. *)
BatchCount(batch, k) ==
    Cardinality({p \in 1..Len(batch) : batch[p] \in Range(Val(sampler).temp_list[k].indexes)})

C11_RoundRobinCounts ==
    sampler # None =>
        LET t == Val(sampler).temp_list
            C == Len(t)
        IN /\ C = Cardinality(Range(labels0))
           /\ \A k \in 1..C : t[k].n = Population(t[k].v)
           /\ \A k \in 1..C : \A m \in 1..C : k < m => t[k].n >= t[m].n
           /\ s_batch # None =>
                /\ \A k \in 1..C :
                     BatchCount(Val(s_batch), k) =
                        Cardinality({sl \in 0..(s_pc.batch_size - 1) : sl % C = k - 1})
                /\ \A k \in 1..C : \A m \in 1..C :
                     /\ BatchCount(Val(s_batch), k) - BatchCount(Val(s_batch), m) <= 1
                     /\ t[k].n > t[m].n =>
                          BatchCount(Val(s_batch), k) >= BatchCount(Val(s_batch), m)

(* A batch of 3 over two classes of 2 and 1 samples: the larger class gives 2. *)
C11_Witness ==
    /\ sampler # None /\ s_batch # None
    /\ s_pc.batch_size = 3
    /\ Len(Val(sampler).temp_list) = 2
    /\ Val(sampler).temp_list[1].n = 2
    /\ BatchCount(Val(s_batch), 1) = 2
    /\ BatchCount(Val(s_batch), 2) = 1


(***************************************************************************)
(* C12: with step = 1 the generator reshuffles only at the end of a full   *)
(* pass: when it reshuffles, the slices returned since creation or since   *)
(* the previous reshuffle hold every index of the collection exactly once. *)
(***************************************************************************)
C12_FullPassBeforeReshuffle ==
    [][(/\ gen # None /\ Val(gen).started /\ Val(gen).step = 1
        /\ Len(gen_arg) >= 1
        /\ Len(gen_pass') = 1)
        => /\ Len(gen_pass) = Len(gen_arg)
           /\ {gen_pass[j][1] : j \in 1..Len(gen_pass)} = Range(gen_arg)]_vars


(***************************************************************************)
(* C13: the class groups built at construction partition the positions     *)
(* 0..N-1, and every position p lies in the group of the label that stood  *)
(* at position p of the label sequence as the caller passed it in.         *)
(***************************************************************************)
C13_GroupsFollowCallerLabels ==
    sampler # None =>
        LET t == Val(sampler).temp_list IN
        /\ UNION {Range(t[k].indexes) : k \in 1..Len(t)} = 0..(Len(labels0) - 1)
        /\ \A k \in 1..Len(t) : \A m \in 1..Len(t) :
             k # m => Range(t[k].indexes) \cap Range(t[m].indexes) = {}
        /\ \A k \in 1..Len(t) : \A q \in Range(t[k].indexes) : labels0[q + 1] = t[k].v


(***************************************************************************)
(* C14: one-batch lag with two buffers.  At the handoff of a batch i that  *)
(* is not the last upstream batch, batch i+1 has been pulled and its       *)
(* preparation issued, and exactly two pulled batches (i and i+1) had not  *)
(* been handed over before; at no point of a pass are more than two        *)
(* batches pulled from upstream and not yet handed over.                   *)
(***************************************************************************)
C14_TwoInFlight ==
    /\ p_pos - Len(p_handed) \in 0..2
    /\ (p_pc \in {"yielded", "yielded_last"} /\ Len(p_handed) >= 1) =>
         LET i == p_handed[Len(p_handed)].k IN
         i < Len(loader.batches) - 1 =>
            /\ p_pos = i + 2
            /\ Len(p_stream) = i + 2 /\ p_stream[i + 2] = i + 1
            /\ p_pos - (Len(p_handed) - 1) = 2

(* The first of three batches has just been handed over. *)
C14_Witness ==
    /\ p_pc = "yielded"
    /\ Len(loader.batches) = 3
    /\ Len(p_handed) = 1 /\ p_handed[1].k = 0
    /\ p_pos = 2


(***************************************************************************)
(* C15: a pass over n >= 1 upstream batches moves through START, PRIMING,  *)
(* STEADY, DRAIN, DONE in that order, skipping STEADY exactly when n = 1;  *)
(* nothing is handed over in START or PRIMING, where the first batch is    *)
(* fetched and its preparation issued; the last batch is handed over only  *)
(* once upstream has been found exhausted; and while the consumer keeps    *)
(* asking, the pass reaches DONE unless a preparation raises.              *)
(***************************************************************************)
C15_PhaseOrder ==
    /\ [](Len(loader.batches) >= 1 =>
            /\ PfPhase \in {0, 1} => p_handed = <<>>
            /\ p_handed # <<>> => (Len(p_stream) >= 1 /\ p_stream[1] = 0)
            /\ \A j \in 1..Len(p_handed) :
                 p_handed[j].k = Len(loader.batches) - 1 => PfPhase \in {3, 4}
            /\ PfPhase = 5 => p_exc = "RuntimeError")
    /\ [][Len(loader.batches) >= 1 =>
            \/ PfPhase' = PfPhase
            \/ PfPhase' = 5
            \/ PfPhase' = PfPhase + 1 /\ (PfPhase = 2 => Len(loader.batches) >= 2)
            \/ PfPhase = 1 /\ PfPhase' = 3 /\ Len(loader.batches) = 1]_vars
    /\ (Len(loader.batches) >= 1) ~> (PfPhase = 4 \/ p_exc = "RuntimeError")

(* A pass over three batches is done, having handed over all three. *)
C15_Witness ==
    /\ PfPhase = 4
    /\ Len(loader.batches) = 3
    /\ Len(p_handed) = 3 /\ p_handed[3].k = 2


(***************************************************************************)
(* C16: fast_collate raises whenever some sample's per-element shape       *)
(* differs from the shape of sample 0 (samples of one variant and arity):  *)
(* no batch is returned from samples of heterogeneous shapes.              *)
(***************************************************************************)
C16_ShapeMismatchRejected ==
    (/\ c_pc = "done"
     /\ c_batch.head_is_tuple
     /\ Len(c_batch.samples) >= 1
     /\ LET first == c_batch.samples[1].data IN
        /\ first.kind \in {"ndarray", "tensor", "tuple"}
        /\ \A i \in 1..Len(c_batch.samples) :
             /\ c_batch.samples[i].data.kind = first.kind
             /\ Len(c_batch.samples[i].data.items) = Len(first.items)
        /\ \E i \in 1..Len(c_batch.samples) :
             LET d == c_batch.samples[i].data IN
             \/ d.shape # first.shape
             \/ \E j \in 1..Len(d.items) : d.items[j].shape # first.items[1].shape)
        => c_result.exc # ""


(***************************************************************************)
(* C17: when the preparation of upstream batch k fails, the consumer gets  *)
(* the failure where it asks for batch k, every batch before k having been *)
(* handed over; no preparation is issued twice and nothing is handed over  *)
(* after the failure.  (At the failure k is the batch pulled last.)        *)
(***************************************************************************)
C17_FailureAtItsBatch ==
    (p_pc = "raised" /\ p_exc = "RuntimeError") =>
        /\ Len(p_handed) = p_pos - 1
        /\ \A j \in 1..Len(p_handed) : p_handed[j].k = j - 1
        /\ \A a \in 1..Len(p_stream) : \A b \in 1..Len(p_stream) :
             p_stream[a] = p_stream[b] => a = b


(***************************************************************************)
(* C18: a prefetching loader built by create_loader with is_training false *)
(* applies the erasing transform to no batch, whatever re_prob was passed; *)
(* with is_training true it applies it to every batch, after the           *)
(* normalization, exactly when re_prob > 0.                                *)
(***************************************************************************)
(* next_input holds the raw upstream batch between line 82 and line 84. *)
Prepared ==
    {p_handed[j].batch : j \in 1..Len(p_handed)} \cup Range(p_cur)
        \cup (IF p_pc \in {"prepare", "raised"} THEN {} ELSE Range(p_next))

ErasingApplied(b) == \E a \in 1..Len(b.input.steps) : b.input.steps[a] = "random_erasing"

C18_ErasingOnlyInTraining ==
    \A b \in Prepared :
        /\ ErasingApplied(b) <=> (pl.is_training /\ pl.re_prob > 0)
        /\ b.input.erased <=> ErasingApplied(b)
        /\ \A a \in 1..Len(b.input.steps) :
             b.input.steps[a] = "random_erasing" =>
                /\ a = Len(b.input.steps)
                /\ \E d \in 1..(a - 1) : b.input.steps[d] = "div_"

C18_Witness ==
    /\ pl.is_training /\ pl.re_prob > 0
    /\ Len(p_handed) >= 2
    /\ \A j \in 1..Len(p_handed) : ErasingApplied(p_handed[j].batch)

(***************************************************************************)
(* C19: for a non-empty collection and 1 <= step <= length, whenever the   *)
(* cyclic index iterator is suspended its cursor satisfies                 *)
(* 0 <= cursor < length and cursor + step <= length; the cursor either     *)
(* advances by step or goes back to 0 together with a reshuffle.           *)
(***************************************************************************)
C19_CursorInBounds ==
    /\ [](\A g \in Range(gen) :
            (g.started /\ g.total_size >= 1 /\ g.step \in 1..g.total_size) =>
                /\ 0 <= g.i /\ g.i < g.total_size
                /\ g.i + g.step <= g.total_size)
    /\ [][\A g \in Range(gen) : \A h \in Range(gen') :
            (g.started /\ g.total_size >= 1 /\ g.step \in 1..g.total_size) =>
                \/ h.i = g.i + g.step /\ gen_pass' = Append(gen_pass, Val(gen_out'))
                \/ h.i = 0 /\ gen_pass' = <<Val(gen_out')>>
                           /\ h.index \in Shuffle(g.index)]_vars

C19_Witness ==
    /\ gen # None /\ Val(gen).started
    /\ Val(gen).total_size = 3 /\ Val(gen).step = 1
    /\ Val(gen).i = 1 /\ gen_shuffles >= 1

====
